---- MODULE Spec2Model ----
(***************************************************************************)
(* NodeManager of rviz_topmap (src/src/node_manager.cpp): a manager that   *)
(* holds one "current" NodeController in slot 0 of a property tree and the *)
(* saved controllers behind it.  Controllers are heap objects named by the *)
(* integers 1..MaxCtrl; NULL is the null pointer.  Every method of the     *)
(* manager is an operator from a manager state (a record) to the state it  *)
(* leaves behind; an action applies one method call of the host.           *)
(***************************************************************************)
EXTENDS Integers, Sequences, FiniteSets, TLC

\* ------------------------------------------------------------------ bounds
\* Number of controllers that are ever allocated (addresses are not reused).
MaxCtrl == 3
\* Longest "Saved" list of a configuration handed to load.
MaxSaved == 2

\* ------------------------------------------------------------- constants
NULL == 0

\* Class ids the plugin factory can instantiate, and one it cannot.
KnownClasses == {"rviz/Orbit", "rviz_topmap/Node"}
UnknownClass == "no/SuchClass"
ClassIds == KnownClasses \cup {UnknownClass}

\* The reserved display name of the current controller.
CurrentViewName == "Current View"

\* factory_->getClassName(class_id): the display name of a class.
ClassName(class_id) ==
  CASE class_id = "rviz/Orbit"       -> "Orbit"
    [] class_id = "rviz_topmap/Node" -> "Node"
    [] OTHER                         -> ""

\* The tuning parameters of a controller (near clip distance, stereo
\* settings), as the two settings a freshly constructed controller and an
\* edited one have.
DefaultParams == [near_clip |-> 1, stereo_enable |-> TRUE]
ParamValues == {DefaultParams, [near_clip |-> 2, stereo_enable |-> FALSE]}

Ids == 1..MaxCtrl

\* A heap cell that holds no live object (never allocated, or deleted).
NoObject ==
  [alive |-> FALSE, class_id |-> "", params |-> DefaultParams, name |-> "",
   parent |-> FALSE, connected |-> FALSE]

\* NodeController as the factory constructs it: class id set by the
\* factory, default parameters, no parent, no connection to the manager.
NewController(class_id) ==
  [alive |-> TRUE, class_id |-> class_id, params |-> DefaultParams, name |-> "",
   parent |-> FALSE, connected |-> FALSE]

\* ------------------------------------------------------------ configuration
\* A "Class" key that is absent from a configuration map.
Missing == "<missing>"

\* Configuration of one controller: the "Class" field and the parameters.
CtrlConfigs ==
  {[Class |-> Missing, params |-> DefaultParams],
   [Class |-> UnknownClass, params |-> DefaultParams]}
  \cup [Class : KnownClasses, params : ParamValues]

RECURSIVE SeqsUpTo(_, _)
SeqsUpTo(S, n) ==
  IF n = 0 THEN {<< >>}
  ELSE LET shorter == SeqsUpTo(S, n - 1)
       IN shorter \cup {Append(q, x) : q \in {r \in shorter : Len(r) = n - 1}, x \in S}

\* Configurations of a manager: {"Current": {...}, "Saved": [{...}, ...]}.
Configs == [Current : CtrlConfigs, Saved : SeqsUpTo(CtrlConfigs, MaxSaved)]

\* The configuration before anything was saved: an empty map.
EmptyConfig == [Current |-> [Class |-> Missing, params |-> DefaultParams], Saved |-> << >>]

\* ------------------------------------------------------------------ state
VARIABLES
  children,   \* root_property_->children_: the tree's children, slot 0 first
  current_,   \* NodeManager::current_
  heap,       \* the controller objects, by address
  nextId,     \* the address the next allocation returns
  fault,      \* the program dereferenced a null or dangling pointer
  emitted,    \* the signals the last method call emitted, in order
  observed,   \* what a listener saw at each signal of the last method call
  lastOp      \* the last method call: its name, arguments and result

vars == <<children, current_, heap, nextId, fault, emitted, observed, lastOp>>

\* The manager state the methods work on.
St ==
  [children |-> children, current |-> current_, heap |-> heap, nextId |-> nextId,
   fault |-> fault, emitted |-> << >>, observed |-> << >>]

Fault(s) == [s EXCEPT !.fault = TRUE]

\* What a slot connected to a signal finds when the signal reaches it: the
\* object a destroyed() is about, getCurrent(), and the first child of the
\* tree with its name.
Snapshot(s, signal, obj) ==
  LET front == IF s.children = << >> THEN NULL ELSE s.children[1]
  IN [signal |-> signal, object |-> obj, current |-> s.current, front |-> front,
      frontName |-> IF front = NULL THEN "" ELSE s.heap[front].name]

Emit(s, signal) ==
  [s EXCEPT !.emitted = Append(@, signal),
            !.observed = Append(@, Snapshot(s, signal, NULL))]

\* ----------------------------------------------------------- sequences
\* Positions are 0-based, as in the code.
At(seq, i) == seq[i + 1]

InsertAt(seq, i, x) == SubSeq(seq, 1, i) \o <<x>> \o SubSeq(seq, i + 1, Len(seq))

RemoveAt(seq, i) == SubSeq(seq, 1, i) \o SubSeq(seq, i + 2, Len(seq))

\* ------------------------------------------------- rviz::Property (host)
numChildren(s) == Len(s.children)

\* Property::childAt: NULL outside 0..numChildren-1.
childAt(s, index) ==
  IF 0 <= index /\ index < numChildren(s) THEN At(s.children, index) ELSE NULL

\* Property::addChild: an index outside 0..numChildren appends; the child's
\* parent becomes the root.  The child is not removed from where it was.
PropertyAddChild(s, child, index) ==
  LET n == numChildren(s)
      i == IF index < 0 \/ index > n THEN n ELSE index
  IN [s EXCEPT !.children = InsertAt(@, i, child), !.heap[child].parent = TRUE]

\* Property::takeChildAt: NULL for an index outside the list, else the child
\* is removed and loses its parent (a write through the child pointer).
PropertyTakeChildAt(s, index) ==
  IF index < 0 \/ index >= numChildren(s)
    THEN [st |-> s, ret |-> NULL]
    ELSE LET child == At(s.children, index)
         IN IF ~s.heap[child].alive
              THEN [st |-> Fault(s), ret |-> NULL]
              ELSE [st |-> [s EXCEPT !.children = RemoveAt(@, index),
                                     !.heap[child].parent = FALSE],
                    ret |-> child]

\* Property::takeChild: takes the first occurrence of the child.
PropertyTakeChild(s, child) ==
  IF \E i \in 0..(numChildren(s) - 1) : At(s.children, i) = child
    THEN PropertyTakeChildAt(s,
           CHOOSE i \in 0..(numChildren(s) - 1) :
             /\ At(s.children, i) = child
             /\ \A j \in 0..(i - 1) : At(s.children, j) # child)
    ELSE [st |-> s, ret |-> NULL]

\* --------------------------------------------------------- NodeManager
getCurrent(s) == s.current

\* NodeManager::onCurrentDestroyed
onCurrentDestroyed(s, obj) ==
  IF obj = s.current THEN [s EXCEPT !.current = NULL] ELSE s

\* delete obj: ~Property detaches the object from its parent, ~QObject emits
\* destroyed(), which reaches onCurrentDestroyed when it is connected.
\* The snapshot is what a listener of destroyed() finds after that slot ran.
\* Deleting NULL does nothing; deleting a dead object is a double free.
Delete(s, obj) ==
  IF obj = NULL THEN s
  ELSE IF ~s.heap[obj].alive THEN Fault(s)
  ELSE LET s1 == IF s.heap[obj].parent THEN PropertyTakeChild(s, obj).st ELSE s
           s2 == IF s1.heap[obj].connected THEN onCurrentDestroyed(s1, obj) ELSE s1
       IN [s2 EXCEPT !.heap[obj] = NoObject,
                     !.observed = Append(@, Snapshot(s2, "destroyed", obj))]

\* Property::removeChildren(start_index): deletes the children from
\* start_index on, each with its parent cleared first, then erases them.
RECURSIVE DeleteChildren(_, _, _)
DeleteChildren(s, i, end) ==
  IF i >= end \/ s.fault THEN s
  ELSE LET child == At(s.children, i)
       IN IF ~s.heap[child].alive THEN Fault(s)
          ELSE DeleteChildren(Delete([s EXCEPT !.heap[child].parent = FALSE], child),
                              i + 1, end)

\* With start_index beyond the end the erased range is invalid: the host
\* either leaves the list alone or faults (eraseFaults).
PropertyRemoveChildren(s, start_index, eraseFaults) ==
  LET n == numChildren(s)
  IN IF start_index > n THEN (IF eraseFaults THEN Fault(s) ELSE s)
     ELSE LET s1 == DeleteChildren(s, start_index, n)
          IN IF s1.fault THEN s1
             ELSE [s1 EXCEPT !.children = SubSeq(@, 1, start_index)]

\* ------------------------------------------------------ NodeController
\* NodeController::save: the class id and the tuning parameters.
ControllerSave(s, obj) ==
  [Class |-> s.heap[obj].class_id, params |-> s.heap[obj].params]

\* NodeController::load: the tuning parameters (the class id is fixed at
\* creation).
ControllerLoad(s, obj, cfg) == [s EXCEPT !.heap[obj].params = cfg.params]

\* mimic / transitionFrom: continuity with the previous controller, left to
\* the subclasses; the base parameters are not touched.
mimic(s, new_current, previous) == s

transitionFrom(s, new_current, previous) == s

\* -------------------------------------------- NodeControllerContainer
\* NodeControllerContainer::addChild: index 0 is moved to 1.
addChild(s, child, index) ==
  PropertyAddChild(s, child, IF index = 0 THEN 1 ELSE index)

\* NodeControllerContainer::addChildToFront
addChildToFront(s, child) == PropertyAddChild(s, child, 0)

\* --------------------------------------------------------- NodeManager
\* create with the fallback the source has commented out: a placeholder
\* controller stands in for a class the factory cannot make.
createWithPlaceholder(s, class_id) ==
  IF s.nextId > MaxCtrl
    THEN Fault(s)
    ELSE [s EXCEPT !.heap[s.nextId] = NewController(class_id), !.nextId = @ + 1]

\* NodeManager::create: the new controller is at address s.nextId.  A class
\* the factory does not know gives NULL, which initialize() dereferences;
\* so does an allocation beyond the bounded heap.
create(s, class_id) ==
  IF class_id \notin KnownClasses \/ s.nextId > MaxCtrl
    THEN Fault(s)
    ELSE [s EXCEPT !.heap[s.nextId] = NewController(class_id), !.nextId = @ + 1]

\* setCurrent without the deletion of the previous controller.
setCurrentKeepsPrevious(s, new_current, mimic_view) ==
  LET previous == getCurrent(s)
  IN IF new_current = NULL \/ ~s.heap[new_current].alive THEN Fault(s)
     ELSE
       LET s1 == IF previous # NULL
                   THEN [s EXCEPT !.heap[previous].connected = FALSE]
                   ELSE s
           s2 == [s1 EXCEPT !.heap[new_current].name = CurrentViewName,
                            !.heap[new_current].connected = TRUE,
                            !.current = new_current]
       IN Emit(addChildToFront(s2, new_current), "currentChanged")

\* setCurrent without the assignment to current_.
setCurrentForgetsAssign(s, new_current, mimic_view) ==
  LET previous == getCurrent(s)
  IN IF new_current = NULL \/ ~s.heap[new_current].alive THEN Fault(s)
     ELSE
       LET s1 == IF previous # NULL
                   THEN [s EXCEPT !.heap[previous].connected = FALSE]
                   ELSE s
           s2 == [s1 EXCEPT !.heap[new_current].name = CurrentViewName,
                            !.heap[new_current].connected = TRUE]
           s4 == Delete(addChildToFront(s2, new_current), previous)
       IN IF s4.fault THEN s4 ELSE Emit(s4, "currentChanged")

\* setCurrent deleting the previous controller first, while its destroyed()
\* is still connected and current_ still points at it.
setCurrentDeletesFirst(s, new_current, mimic_view) ==
  LET previous == getCurrent(s)
  IN IF new_current = NULL \/ ~s.heap[new_current].alive THEN Fault(s)
     ELSE
       LET s1 == IF previous # NULL
                   THEN IF mimic_view THEN mimic(s, new_current, previous)
                        ELSE transitionFrom(s, new_current, previous)
                   ELSE s
           s2 == Delete(s1, previous)
           s3 == [s2 EXCEPT !.heap[new_current].name = CurrentViewName,
                            !.heap[new_current].connected = TRUE,
                            !.current = new_current]
           s4 == addChildToFront(s3, new_current)
       IN IF s4.fault THEN s4 ELSE Emit(s4, "currentChanged")

\* NodeManager::setCurrent
setCurrent(s, new_current, mimic_view) ==
  LET previous == getCurrent(s)
  IN IF new_current = NULL \/ ~s.heap[new_current].alive THEN Fault(s)
     ELSE
       LET s1 == IF previous # NULL
                   THEN LET m == IF mimic_view THEN mimic(s, new_current, previous)
                                 ELSE transitionFrom(s, new_current, previous)
                        IN [m EXCEPT !.heap[previous].connected = FALSE]
                   ELSE s
           s2 == [s1 EXCEPT !.heap[new_current].name = CurrentViewName,
                            !.heap[new_current].connected = TRUE,
                            !.current = new_current]
           s3 == addChildToFront(s2, new_current)
           s4 == Delete(s3, previous)
       IN IF s4.fault THEN s4 ELSE Emit(s4, "currentChanged")

\* NodeManager::update: forwards to the current controller when there is
\* one; to is the controller the call was forwarded to.  The controller's
\* own update, like mimic and transitionFrom, touches no base field.
update(s) ==
  LET current == getCurrent(s)
  IN IF current # NULL
       THEN IF ~s.heap[current].alive THEN [st |-> Fault(s), to |-> current]
            ELSE [st |-> s, to |-> current]
       ELSE [st |-> s, to |-> NULL]

\* NodeManager::initialize
initialize(s) ==
  LET c == create(s, "rviz/Orbit")
  IN IF c.fault THEN c ELSE setCurrent(c, s.nextId, FALSE)

\* copy without the load of the source's configuration into the copy.
copyWithoutLoad(s, source) ==
  IF source = NULL \/ ~s.heap[source].alive THEN Fault(s)
  ELSE create(s, s.heap[source].class_id)

\* NodeManager::copy: the copy is at address s.nextId.
copy(s, source) ==
  IF source = NULL \/ ~s.heap[source].alive THEN Fault(s)
  ELSE LET cfg == ControllerSave(s, source)
           c == create(s, s.heap[source].class_id)
       IN IF c.fault THEN c ELSE ControllerLoad(c, s.nextId, cfg)

\* setCurrentFrom without the comparison of the source with the current.
setCurrentFromAlways(s, source_view) ==
  IF source_view = NULL THEN s
  ELSE LET c == copy(s, source_view)
           s1 == IF c.fault THEN c ELSE setCurrent(c, s.nextId, FALSE)
       IN IF s1.fault THEN s1 ELSE Emit(s1, "configChanged")

\* NodeManager::setCurrentFrom
setCurrentFrom(s, source_view) ==
  IF source_view = NULL THEN s
  ELSE LET previous == getCurrent(s)
       IN IF source_view # previous
            THEN LET c == copy(s, source_view)
                     s1 == IF c.fault THEN c ELSE setCurrent(c, s.nextId, FALSE)
                 IN IF s1.fault THEN s1 ELSE Emit(s1, "configChanged")
            ELSE s

\* NodeManager::setCurrentNodeControllerType
setCurrentNodeControllerType(s, new_class_id) ==
  LET c == create(s, new_class_id)
  IN IF c.fault THEN c ELSE setCurrent(c, s.nextId, TRUE)

\* copyCurrentToList inserting the copy in front of the saved controllers.
copyCurrentToListAtFront(s) ==
  LET current == getCurrent(s)
  IN IF current # NULL
       THEN LET c == copy(s, current)
                new_copy == s.nextId
            IN IF c.fault THEN c
               ELSE addChild([c EXCEPT !.heap[new_copy].name =
                                         ClassName(c.heap[new_copy].class_id)],
                             new_copy, 0)
       ELSE s

\* NodeManager::copyCurrentToList
copyCurrentToList(s) ==
  LET current == getCurrent(s)
  IN IF current # NULL
       THEN LET c == copy(s, current)
                new_copy == s.nextId
            IN IF c.fault THEN c
               ELSE addChild([c EXCEPT !.heap[new_copy].name =
                                         ClassName(c.heap[new_copy].class_id)],
                             new_copy, -1)
       ELSE s

\* getViewAt without the normalisation of a negative index.
getViewAtNoClamp(s, index) == childAt(s, index + 1)

\* NodeManager::getViewAt
getViewAt(s, index) == childAt(s, (IF index < 0 THEN 0 ELSE index) + 1)

\* NodeManager::getNumViews
getNumViews(s) ==
  LET count == numChildren(s)
  IN IF count <= 0 THEN 0 ELSE count - 1

\* NodeManager::add
add(s, view, index) ==
  addChild(s, view, IF index < 0 THEN numChildren(s) ELSE index + 1)

\* NodeManager::take: the first saved position that holds view.
\* Every getViewAt(i) it evaluates casts, and so reads, the child.
take(s, view) ==
  LET hits == {i \in 0..(getNumViews(s) - 1) : getViewAt(s, i) = view}
      first == IF hits = {} THEN getNumViews(s)
               ELSE CHOOSE i \in hits : \A j \in hits : i <= j
  IN IF \E i \in 0..(getNumViews(s) - 1) : i <= first /\ ~s.heap[getViewAt(s, i)].alive
       THEN [st |-> Fault(s), ret |-> NULL]
       ELSE IF hits = {} THEN [st |-> s, ret |-> NULL]
       ELSE PropertyTakeChildAt(s, first + 1)

\* takeAt without the offset that skips the current slot.
takeAtNoOffset(s, index) ==
  IF index < 0 THEN [st |-> s, ret |-> NULL]
  ELSE PropertyTakeChildAt(s, index)

\* NodeManager::takeAt
takeAt(s, index) ==
  IF index < 0 THEN [st |-> s, ret |-> NULL]
  ELSE PropertyTakeChildAt(s, index + 1)

\* The loop of NodeManager::load over the "Saved" list, from entry i on.
RECURSIVE loadSaved(_, _, _)
loadSaved(s, saved_views_config, i) ==
  IF i > Len(saved_views_config) \/ s.fault THEN s
  ELSE LET view_config == saved_views_config[i]
       IN IF view_config.Class # Missing
            THEN LET c == create(s, view_config.Class)
                     view == s.nextId
                 IN IF c.fault THEN c
                    ELSE loadSaved(add(ControllerLoad(c, view, view_config), view, -1),
                                   saved_views_config, i + 1)
            ELSE loadSaved(s, saved_views_config, i + 1)

\* load that keeps the saved controllers it finds.
loadMerges(s, cfg, eraseFaults) ==
  LET current_config == cfg.Current
      s1 == IF current_config.Class # Missing
              THEN LET c == create(s, current_config.Class)
                       new_current == s.nextId
                   IN IF c.fault THEN c
                      ELSE setCurrent(ControllerLoad(c, new_current, current_config),
                                      new_current, FALSE)
              ELSE s
  IN loadSaved(s1, cfg.Saved, 1)

\* NodeManager::load
load(s, cfg, eraseFaults) ==
  LET current_config == cfg.Current
      s1 == IF current_config.Class # Missing
              THEN LET c == create(s, current_config.Class)
                       new_current == s.nextId
                   IN IF c.fault THEN c
                      ELSE setCurrent(ControllerLoad(c, new_current, current_config),
                                      new_current, FALSE)
              ELSE s
      s2 == IF s1.fault THEN s1 ELSE PropertyRemoveChildren(s1, 1, eraseFaults)
  IN loadSaved(s2, cfg.Saved, 1)

\* NodeManager::save: getCurrent() and every getViewAt(i) are dereferenced.
save(s) ==
  IF getCurrent(s) = NULL \/ ~s.heap[getCurrent(s)].alive
     \/ \E i \in 0..(getNumViews(s) - 1) : ~s.heap[getViewAt(s, i)].alive
    THEN [st |-> Fault(s), cfg |-> EmptyConfig]
    ELSE [st |-> s,
          cfg |-> [Current |-> ControllerSave(s, getCurrent(s)),
                   Saved |-> [i \in 1..getNumViews(s) |->
                                ControllerSave(s, getViewAt(s, i - 1))]]]

\* ------------------------------------------------------------- the host
\* Index arguments the host passes.
Indexes == (-2)..MaxCtrl

Alive == {v \in Ids : heap[v].alive}

\* Controllers the host holds itself: created or taken, and not given to
\* the manager.
Detached == {v \in Alive : ~heap[v].parent /\ v # current_}

\* Controllers the manager holds: the current one and the tree's children.
Held == {v \in Alive : heap[v].parent \/ v = current_}

\* Controllers a call may still allocate.
Room == MaxCtrl + 1 - nextId

Op(name, view, index, ret, cfg) ==
  [name |-> name, view |-> view, index |-> index, ret |-> ret, cfg |-> cfg]

\* A call without controller, index or configuration arguments.
Call(name) == Op(name, NULL, 0, NULL, EmptyConfig)

\* The state after a call that left the manager in state s.
Apply(s, op) ==
  /\ children' = s.children
  /\ current_' = s.current
  /\ heap' = s.heap
  /\ nextId' = s.nextId
  /\ fault' = s.fault
  /\ emitted' = s.emitted
  /\ observed' = s.observed
  /\ lastOp' = op

Init ==
  /\ children = << >>
  /\ current_ = NULL
  /\ heap = [v \in Ids |-> NoObject]
  /\ nextId = 1
  /\ fault = FALSE
  /\ emitted = << >>
  /\ observed = << >>
  /\ lastOp = Call("construct")

Initialize ==
  /\ ~fault /\ Room >= 1
  /\ Apply(initialize(St), Call("initialize"))

Create ==
  \E class_id \in ClassIds :
    /\ ~fault /\ Room >= 1
    /\ LET s == create(St, class_id)
       IN Apply(s, Op("create", NULL, 0, IF s.fault THEN NULL ELSE nextId, EmptyConfig))

\* setCurrent with a controller the caller owns.
SetCurrent ==
  \E new_current \in Detached, mimic_view \in BOOLEAN :
    /\ ~fault
    /\ Apply(setCurrent(St, new_current, mimic_view),
             Op(IF mimic_view THEN "setCurrentMimic" ELSE "setCurrent",
                new_current, 0, NULL, EmptyConfig))

\* setCurrent with the controller that is current already.
SetCurrentSelf ==
  \E mimic_view \in BOOLEAN :
    /\ ~fault /\ current_ # NULL
    /\ Apply(setCurrent(St, current_, mimic_view),
             Op(IF mimic_view THEN "setCurrentMimic" ELSE "setCurrent",
                current_, 0, NULL, EmptyConfig))

SetCurrentFrom ==
  \E source_view \in Alive \cup {NULL} :
    /\ ~fault
    /\ source_view \in {NULL, current_} \/ Room >= 1
    /\ Apply(setCurrentFrom(St, source_view),
             Op("setCurrentFrom", source_view, 0, NULL, EmptyConfig))

SetCurrentNodeControllerType ==
  \E new_class_id \in ClassIds :
    /\ ~fault /\ Room >= 1
    /\ Apply(setCurrentNodeControllerType(St, new_class_id),
             Call("setCurrentNodeControllerType"))

CopyCurrentToList ==
  /\ ~fault
  /\ current_ = NULL \/ Room >= 1
  /\ Apply(copyCurrentToList(St), Call("copyCurrentToList"))

Add ==
  \E view \in Detached, index \in Indexes :
    /\ ~fault
    /\ Apply(add(St, view, index), Op("add", view, index, NULL, EmptyConfig))

Take ==
  \E view \in Alive \cup {NULL} :
    /\ ~fault
    /\ LET r == take(St, view)
       IN Apply(r.st, Op("take", view, 0, r.ret, EmptyConfig))

TakeAt ==
  \E index \in Indexes :
    /\ ~fault
    /\ LET r == takeAt(St, index)
       IN Apply(r.st, Op("takeAt", NULL, index, r.ret, EmptyConfig))

\* Controllers a load of cfg creates.
Creations(cfg) ==
  (IF cfg.Current.Class # Missing THEN 1 ELSE 0)
  + Cardinality({i \in 1..Len(cfg.Saved) : cfg.Saved[i].Class # Missing})

Load ==
  \E cfg \in Configs, eraseFaults \in BOOLEAN :
    /\ ~fault /\ Room >= Creations(cfg)
    /\ eraseFaults => (children = << >> /\ cfg.Current.Class = Missing)
    /\ Apply(load(St, cfg, eraseFaults), Op("load", NULL, 0, NULL, cfg))

Save ==
  /\ ~fault
  /\ LET r == save(St)
     IN Apply(r.st, Op("save", NULL, 0, NULL, r.cfg))

Update ==
  /\ ~fault
  /\ LET r == update(St)
     IN Apply(r.st, Op("update", r.to, 0, NULL, EmptyConfig))

Copy ==
  \E source \in Alive :
    /\ ~fault /\ Room >= 1
    /\ LET s == copy(St, source)
       IN Apply(s, Op("copy", source, 0, IF s.fault THEN NULL ELSE nextId, EmptyConfig))

\* The host deletes the current controller.
DestroyCurrent ==
  /\ ~fault /\ current_ # NULL
  /\ Apply(Delete(St, current_), Op("destroyCurrent", current_, 0, NULL, EmptyConfig))

\* Calls in which the host passes only controllers it owns.
Next ==
  \/ Initialize
  \/ Create
  \/ SetCurrent
  \/ SetCurrentFrom
  \/ SetCurrentNodeControllerType
  \/ CopyCurrentToList
  \/ Add
  \/ Take
  \/ TakeAt
  \/ Load
  \/ Save
  \/ Update
  \/ Copy
  \/ DestroyCurrent

Spec == Init /\ [][Next]_vars

\* The same, and also setCurrent with the current controller itself.
NextSelf == Next \/ SetCurrentSelf

SpecSelf == Init /\ [][NextSelf]_vars

\* ------------------------------------------------------------ properties
Range(seq) == {seq[i] : i \in 1..Len(seq)}

\* No controller occupies two slots of the tree.
NoDuplicates(seq) == \A i, j \in 1..Len(seq) : seq[i] = seq[j] => i = j

\* Controllers that were allocated and have been deleted.
Deleted == {v \in Ids : v < nextId /\ ~heap[v].alive}

\* The calls that install a new current controller through setCurrent.
SetCurrentCalls ==
  {"initialize", "setCurrent", "setCurrentMimic", "setCurrentNodeControllerType"}

\* C1: slot 0 of the tree is reserved for the current controller: whenever
\* the tree is non-empty its child 0 is the controller getCurrent() returns,
\* and the current controller occupies no other slot.
C1_SlotZeroReserved ==
  ~fault =>
    /\ children # << >> => (current_ # NULL /\ children[1] = current_)
    /\ \A i \in 2..Len(children) : children[i] # current_

C4_SetCurrentFromSameIsNoOp ==
  [][(lastOp'.name = "setCurrentFrom" /\ lastOp'.view \in {NULL, current_}) =>
       /\ children' = children /\ current_' = current_
       /\ heap' = heap /\ nextId' = nextId
       /\ emitted' = << >> /\ ~fault'
    ]_vars

\* C4 witness: setCurrentFrom was called with the current controller, which
\* has a saved controller behind it.
C4_CalledWithCurrent ==
  /\ lastOp.name = "setCurrentFrom" /\ ~fault
  /\ lastOp.view # NULL /\ lastOp.view = current_
  /\ Len(children) >= 2
  /\ emitted = << >>

\* C5: setCurrentFrom(source) with a non-null source other than the current
\* controller installs a new copy of source as current: the current
\* controller is a controller that did not exist before, with the class id
\* and parameters of source; source is alive and in the tree slots it was
\* in; currentChanged and then configChanged are emitted.
C5_SetCurrentFromInstallsCopy ==
  [][(/\ lastOp'.name = "setCurrentFrom" /\ ~fault'
      /\ lastOp'.view \notin {NULL, current_}) =>
       LET source == lastOp'.view
       IN /\ current_' # NULL /\ current_' # source
          /\ ~heap[current_'].alive /\ heap'[current_'].alive
          /\ heap'[current_'].class_id = heap[source].class_id
          /\ heap'[current_'].params = heap[source].params
          /\ heap'[source].alive
          /\ \A i \in 1..Len(children) :
               children[i] = source => (i <= Len(children') /\ children'[i] = source)
          /\ emitted' = <<"currentChanged", "configChanged">>
    ]_vars

\* C6: getNumViews() is the number of tree children minus one (zero for an
\* empty tree), and that is the number of controllers in the tree other
\* than the current one.
C6_NumViewsCountsSaved ==
  ~fault =>
    /\ getNumViews(St) = (IF Len(children) = 0 THEN 0 ELSE Len(children) - 1)
    /\ getNumViews(St) = Cardinality({i \in 1..Len(children) : children[i] # current_})

\* C7: no index makes getViewAt or takeAt fault.  A negative index gives
\* getViewAt(0), the child in the first slot behind the reserved one or
\* none, and makes takeAt return none and change nothing; an index at or
\* beyond getNumViews() gives none from both, with nothing changed; and no
\* index makes getViewAt return, or takeAt return or remove, the current
\* controller.
C7_IndexArgumentsNeverRaise ==
  ~fault =>
    \A index \in Indexes :
      LET r == takeAt(St, index)
      IN /\ ~r.st.fault
         /\ index < 0 =>
              /\ getViewAt(St, index) = getViewAt(St, 0)
              /\ getViewAt(St, index) = (IF Len(children) >= 2 THEN children[2] ELSE NULL)
              /\ r.ret = NULL /\ r.st = St
         /\ index >= getNumViews(St) =>
              /\ getViewAt(St, index) = NULL
              /\ r.ret = NULL /\ r.st = St
         /\ current_ # NULL =>
              /\ getViewAt(St, index) # current_
              /\ r.ret # current_
              /\ r.st.current = current_
              /\ r.st.children # << >> /\ r.st.children[1] = current_

\* C7 witness: takeAt was called with a negative index on a manager with a
\* current and two saved controllers, and returned none.
C7_NegativeTakeAt ==
  /\ lastOp.name = "takeAt" /\ ~fault
  /\ lastOp.index < 0 /\ lastOp.ret = NULL
  /\ current_ # NULL /\ Len(children) >= 3

\* C8: copy(x) returns a controller that did not exist before, distinct
\* from x, whose saved configuration (class id and parameters) is that of
\* x; x is unchanged, and so are the tree and the current controller.
C8_CopyRoundTrip ==
  [][(lastOp'.name = "copy" /\ ~fault') =>
       LET x == lastOp'.view
           c == lastOp'.ret
       IN /\ c # NULL /\ c # x
          /\ ~heap[c].alive /\ heap'[c].alive
          /\ ControllerSave(St', c) = ControllerSave(St, x)
          /\ heap'[x] = heap[x]
          /\ children' = children /\ current_' = current_
          /\ c \notin Range(children')
    ]_vars

\* C8 witness: a controller with edited parameters was copied.
C8_CopiedEdited ==
  /\ lastOp.name = "copy" /\ ~fault
  /\ lastOp.ret # NULL
  /\ heap[lastOp.view].params # DefaultParams
  /\ heap[lastOp.ret].params = heap[lastOp.view].params

\* What a controller's configuration holds: its class id and parameters.
ConfigOf(v) == [Class |-> heap[v].class_id, params |-> heap[v].params]

\* Configurations in which every entry names a class the factory knows, as
\* save writes them.
WrittenBySave(cfg) ==
  /\ cfg.Current.Class \in KnownClasses
  /\ \A i \in 1..Len(cfg.Saved) : cfg.Saved[i].Class \in KnownClasses

\* C9: save writes the current controller under "Current" and the saved
\* controllers, in list order, under "Saved"; load of such a configuration
\* leaves a current controller and saved controllers with exactly the class
\* ids and parameters of the configuration, in its order, whatever the
\* manager held before.
C9_SaveLoadSymmetric ==
  [][~fault' =>
       /\ lastOp'.name = "save" =>
            /\ current_ # NULL
            /\ lastOp'.cfg.Current = ConfigOf(current_)
            /\ lastOp'.cfg.Saved =
                 [i \in 1..(Len(children) - 1) |-> ConfigOf(children[i + 1])]
            /\ WrittenBySave(lastOp'.cfg)
       /\ (lastOp'.name = "load" /\ WrittenBySave(lastOp'.cfg)) =>
            /\ current_' # NULL /\ children' # << >> /\ children'[1] = current_'
            /\ save(St').cfg = lastOp'.cfg
            /\ Len(children') = 1 + Len(lastOp'.cfg.Saved)
            /\ \A i \in 1..Len(lastOp'.cfg.Saved) :
                 /\ heap'[children'[i + 1]].class_id = lastOp'.cfg.Saved[i].Class
                 /\ heap'[children'[i + 1]].params = lastOp'.cfg.Saved[i].params
            /\ heap'[current_'].class_id = lastOp'.cfg.Current.Class
            /\ heap'[current_'].params = lastOp'.cfg.Current.params
    ]_vars

\* C9 witness: load replaced the current controller by the configuration's
\* current controller and a saved controller with edited parameters.
C9_LoadedOverSaved ==
  /\ lastOp.name = "load" /\ ~fault
  /\ WrittenBySave(lastOp.cfg)
  /\ Len(lastOp.cfg.Saved) = 1
  /\ Deleted # {}
  /\ heap[children[2]].params # DefaultParams

C11_CopyCurrentToListAppendsClone ==
  [][(lastOp'.name = "copyCurrentToList" /\ ~fault') =>
       LET s == St
           t == [St EXCEPT !.children = children', !.current = current_',
                           !.heap = heap', !.nextId = nextId']
           clone == nextId
       IN IF current_ # NULL
            THEN /\ clone \notin Range(children) \cup {current_}
                 /\ ~heap[clone].alive /\ heap'[clone].alive
                 /\ heap'[clone].class_id = heap[current_].class_id
                 /\ heap'[clone].params = heap[current_].params
                 /\ heap'[clone].name = ClassName(heap[current_].class_id)
                 /\ children' = Append(children, clone)
                 /\ getNumViews(t) = getNumViews(s) + 1
                 /\ getViewAt(t, getNumViews(t) - 1) = clone
                 /\ \A i \in 0..(getNumViews(s) - 1) : getViewAt(t, i) = getViewAt(s, i)
                 /\ current_' = current_
                 /\ children'[1] = current_
                 /\ \A v \in Ids \ {clone} : heap'[v] = heap[v]
            ELSE /\ children' = children /\ current_' = current_
                 /\ heap' = heap /\ nextId' = nextId
    ]_vars

\* C11 witness: copyCurrentToList appended a clone with edited parameters
\* after a saved controller.
C11_CloneAppended ==
  /\ lastOp.name = "copyCurrentToList" /\ ~fault
  /\ current_ # NULL
  /\ Len(children) = 3
  /\ heap[children[3]].params = heap[current_].params
  /\ heap[current_].params # DefaultParams

\* C12: create does not guard a class id the factory cannot instantiate: it
\* returns neither none nor a placeholder but dereferences the missing
\* instance, which is the fault state, and allocates nothing.  Every
\* operation that hands such a class id to create reaches the fault state:
\* setCurrentNodeControllerType, load of a configuration whose "Current" or
\* "Saved" entry names the class, and copy of a controller of such a class.
\* A class the factory knows never faults in create.
C12_CreateDoesNotGuardMissingInstance ==
  (~fault /\ Room >= 1) =>
    /\ create(St, UnknownClass) = Fault(St)
    /\ \A class_id \in KnownClasses : ~create(St, class_id).fault
    /\ setCurrentNodeControllerType(St, UnknownClass).fault
    /\ \A cfg \in Configs, eraseFaults \in BOOLEAN :
         (/\ Room >= Creations(cfg)
          /\ \/ cfg.Current.Class = UnknownClass
             \/ \E i \in 1..Len(cfg.Saved) : cfg.Saved[i].Class = UnknownClass)
           => load(St, cfg, eraseFaults).fault
    /\ \A source \in Alive :
         copy(St, source).fault = create(St, heap[source].class_id).fault

\* C12 witness: setCurrentNodeControllerType with a class the factory does
\* not know faulted in create, before the current controller was replaced.
C12_UnknownClassFaulted ==
  /\ lastOp.name = "setCurrentNodeControllerType" /\ fault
  /\ current_ # NULL /\ heap[current_].alive
  /\ nextId <= MaxCtrl

C14_LoadReplacesSavedList ==
  [][(lastOp'.name = "load" /\ ~fault') =>
       LET cfg == lastOp'.cfg
           HasClass(e) == e.Class # Missing
           entries == SelectSeq(cfg.Saved, HasClass)
           s == St
           t == [St EXCEPT !.children = children', !.current = current_',
                           !.heap = heap', !.nextId = nextId']
       IN /\ getNumViews(t) = Len(entries)
          /\ \A i \in 1..Len(entries) :
               LET view == getViewAt(t, i - 1)
               IN /\ view # NULL /\ view >= nextId
                  /\ heap'[view].alive
                  /\ heap'[view].class_id = entries[i].Class
                  /\ heap'[view].params = entries[i].params
          /\ \A i \in 0..(getNumViews(s) - 1) :
               getViewAt(s, i) \notin Range(children')
          /\ IF cfg.Current.Class = Missing
               THEN /\ current_' = current_
                    /\ current_ # NULL => heap'[current_] = heap[current_]
               ELSE /\ current_' = nextId
                    /\ heap'[current_'].alive
                    /\ heap'[current_'].class_id = cfg.Current.Class
                    /\ heap'[current_'].params = cfg.Current.params
    ]_vars

\* C15: add(view, index) skips the reserved slot of the current controller:
\* for 0 <= index <= getNumViews() the view is afterwards at getViewAt(index)
\* and the saved controllers from position index on move up by one; for a
\* negative index the view comes after the last saved controller.  In every
\* case getNumViews() grows by one, the saved controllers keep their order,
\* and the current controller stays in tree slot 0 and is what getCurrent()
\* returns.
C15_AddSkipsCurrentSlot ==
  [][(lastOp'.name = "add" /\ ~fault') =>
       LET view == lastOp'.view
           index == lastOp'.index
           s == St
           t == [St EXCEPT !.children = children', !.current = current_',
                           !.heap = heap', !.nextId = nextId']
           n == getNumViews(s)
           at == IF index < 0 THEN n ELSE index
       IN /\ getNumViews(t) = n + 1
          /\ at <= n =>
               /\ getViewAt(t, at) = view
               /\ \A i \in 0..(n - 1) :
                    getViewAt(t, IF i < at THEN i ELSE i + 1) = getViewAt(s, i)
          /\ current_' = current_
          /\ current_ # NULL => children'[1] = current_
    ]_vars

\* C16: take(view) removes and returns view exactly when view is a saved
\* controller, that is a controller of the tree other than the current one;
\* the current controller and the order of the other saved controllers stay
\* as they were and getNumViews() decreases by one.  For the current
\* controller, a controller outside the tree or none, take returns none and
\* changes neither the tree nor the current controller.
C16_TakeRemovesSavedOnly ==
  [][(lastOp'.name = "take" /\ ~fault') =>
       LET view == lastOp'.view
           s == St
           t == [St EXCEPT !.children = children', !.current = current_',
                           !.heap = heap', !.nextId = nextId']
           Other(v) == v # view
       IN /\ current_' = current_
          /\ IF view \in Range(children) \ {current_}
               THEN /\ lastOp'.ret = view
                    /\ children' = SelectSeq(children, Other)
                    /\ getNumViews(t) = getNumViews(s) - 1
                    /\ heap' = [heap EXCEPT ![view].parent = FALSE]
               ELSE /\ lastOp'.ret = NULL
                    /\ children' = children
                    /\ heap' = heap
    ]_vars

\* C17: replacing the current controller leaves the saved list alone: after
\* setCurrent with a controller that is not in the tree, after
\* setCurrentNodeControllerType and after setCurrentFrom, getNumViews() is
\* what it was and getViewAt(i) is the same controller for every i.
C17_ReplacingCurrentKeepsSavedList ==
  [][(/\ lastOp'.name \in {"setCurrent", "setCurrentMimic",
                           "setCurrentNodeControllerType", "setCurrentFrom"}
      /\ ~fault') =>
       LET s == St
           t == [St EXCEPT !.children = children', !.current = current_',
                           !.heap = heap', !.nextId = nextId']
       IN /\ getNumViews(t) = getNumViews(s)
          /\ \A i \in Indexes : getViewAt(t, i) = getViewAt(s, i)
    ]_vars

\* C18: the operations that use the current controller never dereference a
\* missing one: update forwards to the current controller when there is one
\* and otherwise does nothing, and whenever save is called, before
\* initialize and after the destruction of the current controller included,
\* getCurrent() is not none, so save does not fault.
C18_CurrentNeverMissingWhenUsed ==
  [][/\ lastOp'.name = "update" =>
          /\ ~fault'
          /\ lastOp'.view = current_
          /\ children' = children /\ current_' = current_ /\ heap' = heap
     /\ lastOp'.name = "save" => (current_ # NULL /\ ~fault')
    ]_vars

====
